---------------------------- MODULE Spec2Model ----------------------------
(***************************************************************************)
(* chebi2gene: compound -> reactions/proteins -> pathways, genes and       *)
(* organisms, by chained SPARQL queries (src/chebi2gene.py).               *)
(*                                                                         *)
(* Text is modelled as a sequence of symbols.  A symbol is either one of   *)
(* the separator characters the program splits on (":", "/", "#", "_"),    *)
(* the blank " ", or a chunk of text holding none of them.  Python dicts   *)
(* are functions whose DOMAIN is the key set; Python lists are sequences.  *)
(***************************************************************************)
EXTENDS Integers, Sequences, FiniteSets, TLC

VARIABLES
    route,      \* the entry point that was called
    pc,         \* position of the running call
    proteins,   \* `proteins' / `data': None or dict reaction -> [protein]
    arg,        \* the argument the entry point was called with
    returned,   \* values returned so far by convert_to_uniprot_id
    endpoint,   \* what the SPARQL server answers, per kind of query
    queries,    \* the queries sent so far, in order
    molecules,  \* value returned by the search function
    todo,       \* keys the running `for key in data' has still to visit
    pathways,   \* get_pathways_of_proteins: `pathways'
    genes,      \* get_genes_of_proteins: `genes'
    organism,   \* get_organism_of_proteins: `organism'
    data_js,    \* what the last call of sparql_query returned
    raised,     \* the exception that ended the call, if one did
    reply       \* what the route handler returned

fanout == <<todo, pathways, genes, organism>>

vars == <<route, pc, proteins, arg, returned, endpoint, queries, molecules,
          fanout, data_js, raised, reply>>

----------------------------------------------------------------------------
(* Bounds of the model.                                                    *)

\* longest list of protein references under one reaction
MaxList == 2

\* most bindings in the answer to a ChEBI search
MaxBindings == 3

\* most rows the endpoint holds for one kind of protein query
MaxRows == 3

\* most (reaction, xref) rows the endpoint holds for the compound
MaxXrefRows == 2

----------------------------------------------------------------------------
(* Python values.                                                          *)

PyNone == [tag |-> "None"]
PyDict(d) == [tag |-> "dict", d |-> d]
PyList(l) == [tag |-> "list", l |-> l]
EmptyDict == << >>

Ok(v) == [ok |-> TRUE, val |-> v]
Raise(e) == [ok |-> FALSE, exc |-> e]

\* d[k] = v on a dict
Put(d, k, v) == [x \in (DOMAIN d) \cup {k} |-> IF x = k THEN v ELSE d[x]]

\* all sequences over S of length at most n
SeqsUpTo(S, n) == UNION {[1..m -> S] : m \in 0..n}

----------------------------------------------------------------------------
(* str methods.                                                            *)

\* positions of sep in s
Positions(s, sep) == {i \in 1..Len(s) : s[i] = sep}

Max(S) == CHOOSE x \in S : \A y \in S : y <= x
Min(S) == CHOOSE x \in S : \A y \in S : x <= y

\* s.rsplit(sep, 1): one piece when sep does not occur, else the text
\* before and the text after the last sep
rsplit1(s, sep) ==
    IF Positions(s, sep) = {} THEN <<s>>
    ELSE LET i == Max(Positions(s, sep))
         IN  <<SubSeq(s, 1, i - 1), SubSeq(s, i + 1, Len(s))>>

\* s.split(sep): every piece between occurrences of sep
RECURSIVE split(_, _)
split(s, sep) ==
    IF Positions(s, sep) = {} THEN <<s>>
    ELSE LET i == Min(Positions(s, sep))
         IN  <<SubSeq(s, 1, i - 1)>> \o split(SubSeq(s, i + 1, Len(s)), sep)

\* s.strip(): leading and trailing blanks removed
RECURSIVE lstrip(_)
lstrip(s) == IF s # <<>> /\ Head(s) = " " THEN lstrip(Tail(s)) ELSE s
RECURSIVE rstrip(_)
rstrip(s) ==
    IF s # <<>> /\ s[Len(s)] = " " THEN rstrip(SubSeq(s, 1, Len(s) - 1)) ELSE s
strip(s) == rstrip(lstrip(s))

\* sep.join(list)
RECURSIVE Join(_, _)
Join(sep, list) ==
    IF list = <<>> THEN <<>>
    ELSE IF Len(list) = 1 THEN list[1]
    ELSE list[1] \o <<sep>> \o Join(sep, Tail(list))

\* (the slip seq[-1]: the last piece, whatever their number)
Index_last(seq, i) == Ok(seq[Len(seq)])

\* seq[i] of a Python list (0-based), raising IndexError out of range
Index(seq, i) == IF i + 1 <= Len(seq) THEN Ok(seq[i + 1]) ELSE Raise("IndexError")

----------------------------------------------------------------------------
(* convert_to_uniprot_id                                                   *)

\* (the slip protein.split(':')[1]: the text after the first ':')
ProtIdOfRef_first(protein) == Index(split(protein, ":"), 1)

\* prot_id = protein.rsplit(':', 1)[1]
ProtIdOfRef(protein) == Index(rsplit1(protein, ":"), 1)

\* the inner loop: proteins2 for one reaction, or the exception
RECURSIVE ConvertList(_)
ConvertList(refs) ==
    IF refs = <<>> THEN Ok(<<>>)
    ELSE LET prot_id == ProtIdOfRef(Head(refs))
         IN  IF ~prot_id.ok THEN prot_id
             ELSE LET rest == ConvertList(Tail(refs))
                  IN  IF ~rest.ok THEN rest
                      ELSE Ok(<<strip(prot_id.val)>> \o rest.val)

\* convert_to_uniprot_id(data): the dict rewritten in place and returned.
\* When a reference raises, the call ends there; the keys rewritten before
\* it are read by nobody, the exception leaving every caller.
convert_to_uniprot_id(data) ==
    IF data.tag # "dict" THEN Raise("TypeError")
    ELSE IF \E key \in DOMAIN data.d : ~ConvertList(data.d[key]).ok
         THEN Raise("IndexError")
         ELSE Ok(PyDict([key \in DOMAIN data.d |-> ConvertList(data.d[key]).val]))

----------------------------------------------------------------------------
(* sparql_query                                                            *)

\* Response bodies, by their text: one that is no JSON, four JSON texts
\* without results.bindings, and the expected one, whose bindings are kept
\* apart as `rows'.
NotJson == [text |-> "<html>"]
JsonNull == [text |-> "null"]
JsonEmptyObject == [text |-> "{}"]
JsonMessage == [text |-> "{message: []}"]
JsonNoBindings == [text |-> "{results: {}}"]
JsonBody(rows) == [text |-> "{results: {bindings: rows}}", rows |-> rows]

\* the value of {"results": {"bindings": rows}}
Results(rows) == PyDict([results |-> PyDict([bindings |-> PyList(rows)])])

\* json.loads(response)
json_loads(response) ==
    CASE response.text = "null" -> Ok(PyNone)
      [] response.text = "{}" -> Ok(PyDict(EmptyDict))
      [] response.text = "{message: []}" -> Ok(PyDict([message |-> PyList(<<>>)]))
      [] response.text = "{results: {}}" -> Ok(PyDict([results |-> PyDict(EmptyDict)]))
      [] response.text = "{results: {bindings: rows}}" -> Ok(Results(response.rows))
      [] OTHER -> Raise("ValueError")

\* sparql_query(query, server), as a function of the body the server sent:
\* the parsed JSON, or {} when json.loads raised ValueError (a transport
\* failure of urlopen is outside the model: every query gets a body)
sparql_query(response) ==
    LET r == json_loads(response)
    IN  IF r.ok THEN r.val ELSE PyDict(EmptyDict)

\* `not x' of a parsed JSON value
Falsy(x) ==
    \/ x.tag = "None"
    \/ x.tag = "dict" /\ DOMAIN x.d = {}
    \/ x.tag = "list" /\ x.l = <<>>

\* data_js['results']['bindings'], then iter() of it
Bindings(js) ==
    IF js.tag # "dict" THEN Raise("TypeError")
    ELSE IF "results" \notin DOMAIN js.d THEN Raise("KeyError")
    ELSE LET results == js.d["results"]
         IN  IF results.tag # "dict" THEN Raise("TypeError")
             ELSE IF "bindings" \notin DOMAIN results.d THEN Raise("KeyError")
             ELSE IF results.d["bindings"].tag # "list" THEN Raise("TypeError")
             ELSE Ok(results.d["bindings"].l)

\* the kinds of query the program sends
QueryKinds == {"chebi", "rhea", "pathways", "genes", "organism"}

\* bodies that are not the expected shape
MalformedBodies ==
    {NotJson, JsonNull, JsonEmptyObject, JsonMessage, JsonNoBindings}

----------------------------------------------------------------------------
(* get_exact_chebi_from_search / get_extended_chebi_from_search            *)

\* chebi_id = entry['id']['value'].rsplit('/', 1)[1].split('_')[1]
ChebiIdOfUri(uri) ==
    LET seg == Index(rsplit1(uri, "/"), 1)
    IN  IF ~seg.ok THEN seg ELSE Index(split(seg.val, "_"), 1)

\* (the slip of overwriting the entry of an id met again)
MergeEntry_overwrite(mols, chebi_id, entry) ==
    Put(mols, chebi_id, [name |-> <<entry.name>>, syn |-> <<entry.syn>>])

\* the body of the loop, for one entry
MergeEntry(mols, chebi_id, entry) ==
    IF chebi_id \in DOMAIN mols
    THEN Put(mols, chebi_id,
             [name |-> mols[chebi_id].name,
              syn |-> Append(mols[chebi_id].syn, entry.syn)])
    ELSE Put(mols, chebi_id, [name |-> <<entry.name>>, syn |-> <<entry.syn>>])

\* the loop over the bindings, from molecules = mols
RECURSIVE MergeBindings(_, _)
MergeBindings(rows, mols) ==
    IF rows = <<>> THEN Ok(PyDict(mols))
    ELSE LET chebi_id == ChebiIdOfUri(Head(rows).id)
         IN  IF ~chebi_id.ok THEN chebi_id
             ELSE MergeBindings(Tail(rows), MergeEntry(mols, chebi_id.val, Head(rows)))

\* the function after its query: None, the molecules, or the exception
chebi_from_search(js) ==
    IF Falsy(js) THEN Ok(PyNone)
    ELSE LET rows == Bindings(js)
         IN  IF ~rows.ok THEN rows ELSE MergeBindings(rows.val, EmptyDict)

----------------------------------------------------------------------------
(* get_pathways_of_proteins, get_genes_of_proteins,                        *)
(* get_organism_of_proteins                                                *)

Range(f) == {f[x] : x \in DOMAIN f}

\* the orders list(set(proteins)) may come in
ListsOfSet(S) ==
    {l \in [1..Cardinality(S) -> S] : \A i, j \in DOMAIN l : l[i] = l[j] => i = j}

\* proteins = list(set(proteins))
UniqueProteins(lst) == ListsOfSet(Range(lst))

\* <http://purl.uniprot.org/uniprot/%(prot)s>
UniprotUri(p) ==
    <<"purl.uniprot.org", "/", "uniprot", "/">> \o p

\* the text that joins two protein ids in the query
FilterSep == ">,\n<http://purl.uniprot.org/uniprot/"

\* 'prot': '>,\n<http://purl.uniprot.org/uniprot/'.join(proteins)
ProtFilter(prots) == Join(FilterSep, prots)

\* the IRIs of FILTER (?prot IN (<http://purl.uniprot.org/uniprot/%(prot)s>))
\* as the server reads them: the template opens the first IRI and closes
\* the last one, so an empty %(prot)s leaves the one IRI without an id
FilterUris(prot) ==
    LET ids == split(prot, FilterSep)
    IN  [i \in 1..Len(ids) |-> UniprotUri(ids[i])]

\* what the server sends for FILTER (?prot IN (...)): the rows it holds
\* for the listed proteins, in its own order; a server whose answers are
\* not of the expected shape sends that answer whatever the query
Answer(store, prot) ==
    IF store \in MalformedBodies THEN store
    ELSE JsonBody(SelectSeq(store.rows,
             LAMBDA row : row.prot \in Range(FilterUris(prot))))

\* prot_id = entry['prot']['value'].rsplit('/', 1)[1]
ProtIdOfUri(uri) == Index(rsplit1(uri, "/"), 1)

\* if prot_id in d and value not in d[prot_id]: d[prot_id].append(value)
\* else: d[prot_id] = [value]
AddDistinct(d, prot_id, value) ==
    IF prot_id \in DOMAIN d /\ value \notin Range(d[prot_id])
    THEN Put(d, prot_id, Append(d[prot_id], value))
    ELSE Put(d, prot_id, <<value>>)

\* the loop of get_pathways_of_proteins over the bindings of one answer
RECURSIVE FoldPathways(_, _)
FoldPathways(rows, d) ==
    IF rows = <<>> THEN Ok(d)
    ELSE LET prot_id == ProtIdOfUri(Head(rows).prot)
         IN  IF ~prot_id.ok THEN prot_id
             ELSE FoldPathways(Tail(rows), AddDistinct(d, prot_id.val, Head(rows).desc))

\* the loop of get_organism_of_proteins over the bindings of one answer
RECURSIVE FoldOrganism(_, _)
FoldOrganism(rows, d) ==
    IF rows = <<>> THEN Ok(d)
    ELSE LET prot_id == ProtIdOfUri(Head(rows).prot)
         IN  IF ~prot_id.ok THEN prot_id
             ELSE FoldOrganism(Tail(rows), AddDistinct(d, prot_id.val, Head(rows).name))

\* gene = {var: entry[var]['value']}; gene['sca'] = gene['sca'].rsplit('#', 1)[1]
GeneOfEntry(entry) ==
    LET sca == Index(rsplit1(entry.sca, "#"), 1)
    IN  IF ~sca.ok THEN sca
        ELSE Ok([name |-> entry.name, sca |-> sca.val, start |-> entry.start,
                 stop |-> entry.stop, desc |-> entry.desc])

\* if prot_id in genes: genes[prot_id].append(gene) else: genes[prot_id] = [gene]
AddGene(d, prot_id, gene) ==
    IF prot_id \in DOMAIN d THEN Put(d, prot_id, Append(d[prot_id], gene))
    ELSE Put(d, prot_id, <<gene>>)

\* the loop of get_genes_of_proteins over the bindings of one answer
RECURSIVE FoldGenes(_, _)
FoldGenes(rows, d) ==
    IF rows = <<>> THEN Ok(d)
    ELSE LET prot_id == ProtIdOfUri(Head(rows).prot)
             gene == GeneOfEntry(Head(rows))
         IN  IF ~prot_id.ok THEN prot_id
             ELSE IF ~gene.ok THEN gene
             ELSE FoldGenes(Tail(rows), AddGene(d, prot_id.val, gene.val))

----------------------------------------------------------------------------
(* get_protein_of_chebi                                                    *)

\* key = entry['react']['value'].split('#')[1]
ReactionOfUri(uri) == Index(split(uri, "#"), 1)

\* the loop of get_protein_of_chebi over the bindings
RECURSIVE GroupXrefs(_, _)
GroupXrefs(rows, output) ==
    IF rows = <<>> THEN Ok(PyDict(output))
    ELSE LET key == ReactionOfUri(Head(rows).react)
         IN  IF ~key.ok THEN key
             ELSE GroupXrefs(Tail(rows),
                      IF key.val \in DOMAIN output
                      THEN Put(output, key.val, Append(output[key.val], Head(rows).xref))
                      ELSE Put(output, key.val, <<Head(rows).xref>>))

\* the function after its query: None, the reactions, or the exception
protein_of_chebi(js) ==
    IF Falsy(js) THEN Ok(PyNone)
    ELSE LET rows == Bindings(js)
         IN  IF ~rows.ok THEN rows ELSE GroupXrefs(rows.val, EmptyDict)

----------------------------------------------------------------------------
(* show_chebi and generate_csv                                             *)

\* (the guard left out, as in generate_csv)
NoProteins_unguarded(prots) == FALSE

\* if not proteins:
NoProteins(prots) == Falsy(prots)

\* render_template('output.html', proteins=[], pathways=None, genes=None,
\*                 organisms=None, chebi=chebi_id)
RenderNoProteins(chebi_id) ==
    [template |-> "output.html", proteins |-> PyList(<<>>), pathways |-> PyNone,
     genes |-> PyNone, organisms |-> PyNone, chebi |-> chebi_id]

\* render_template('output.html', proteins=proteins, pathways=pathways,
\*                 genes=genes, organisms=organisms, chebi=chebi_id)
RenderOutput(chebi_id) ==
    [template |-> "output.html", proteins |-> proteins, pathways |-> PyDict(pathways),
     genes |-> PyDict(genes), organisms |-> PyDict(organism), chebi |-> chebi_id]

\* the first line of the file, as its columns
CsvHeader ==
    <<"Chebi ID", "Chebi URL", "Rhea ID", "Rhea URL", "UniProt", "Organism", "Type",
      "Name", "Scaffold", "Start", "Stop", "Description">>

ChebiUrl(chebi_id) == <<"http://www.ebi.ac.uk/chebi/searchId.do?chebiId=">> \o chebi_id
ReactUrl(reaction) == <<"http://www.ebi.ac.uk/rhea/reaction.xhtml?id=RHEA:">> \o reaction

\* the columns every line of a protein starts with; organisms[protein]
\* raises KeyError when the protein is no key of organisms
CsvPrefix(chebi_id, reaction, protein) ==
    IF protein \notin DOMAIN organism THEN Raise("KeyError")
    ELSE Ok(<<chebi_id, ChebiUrl(chebi_id), reaction, ReactUrl(reaction), protein,
              Join(" - ", organism[protein])>>)

\* the lines of one protein of one reaction: its pathways, then its genes
CsvOfProtein(chebi_id, reaction, protein) ==
    LET paths == IF protein \in DOMAIN pathways THEN pathways[protein] ELSE <<>>
        gens == IF protein \in DOMAIN genes THEN genes[protein] ELSE <<>>
        prefix == CsvPrefix(chebi_id, reaction, protein)
    IN  IF paths = <<>> /\ gens = <<>> THEN Ok(<<>>)
        ELSE IF ~prefix.ok THEN prefix
        ELSE Ok([i \in 1..Len(paths) |-> prefix.val \o <<"Pathway", paths[i]>>]
                \o [i \in 1..Len(gens) |->
                        prefix.val \o <<"Gene", gens[i].name, gens[i].sca,
                                        gens[i].start, gens[i].stop, gens[i].desc>>])

\* for protein in proteins[reaction]
RECURSIVE CsvOfProteins(_, _, _)
CsvOfProteins(chebi_id, reaction, prots) ==
    IF prots = <<>> THEN Ok(<<>>)
    ELSE LET first == CsvOfProtein(chebi_id, reaction, Head(prots))
         IN  IF ~first.ok THEN first
             ELSE LET rest == CsvOfProteins(chebi_id, reaction, Tail(prots))
                  IN  IF ~rest.ok THEN rest ELSE Ok(first.val \o rest.val)

\* for reaction in proteins, the reactions taken in the order `reactions'
RECURSIVE CsvOfReactions(_, _)
CsvOfReactions(chebi_id, reactions) ==
    IF reactions = <<>> THEN Ok(<<>>)
    ELSE LET first == CsvOfProteins(chebi_id, Head(reactions), proteins.d[Head(reactions)])
         IN  IF ~first.ok THEN first
             ELSE LET rest == CsvOfReactions(chebi_id, Tail(reactions))
                  IN  IF ~rest.ok THEN rest ELSE Ok(first.val \o rest.val)

----------------------------------------------------------------------------
(* Inputs.                                                                 *)

ReactionIds == {<<"16740">>, <<"16741">>}

\* protein references as Rhea gives them, and malformed ones
ProteinRefs ==
    { <<"UNIPROT", ":", "P1">>,
      <<"http", ":", "/", "/", "rhea", "#", "rel", "/", "UNIPROT", ":", "P2">>,
      <<"UNIPROT", ":", " ", "P1", " ">>,
      <<"UNIPROT", ":">>,
      <<"P1">>,
      <<"P2">> }

\* dicts with keys in K and lists over V of at most n elements
DictsOver(K, V, n) ==
    UNION {[D -> SeqsUpTo(V, n)] : D \in SUBSET K}

ConvertInputs == DictsOver(ReactionIds, ProteinRefs, MaxList)

\* an endpoint that answers every query with zero bindings
EmptyEndpoint == [k \in QueryKinds |-> JsonBody(<<>>)]

\* protein ids as convert_to_uniprot_id leaves them
ProteinIds == {<<"P1">>, <<"P2">>}

FanoutInputs == DictsOver(ReactionIds, ProteinIds, MaxList)

\* rows of the three protein queries
PathwayRows ==
    [prot : {UniprotUri(p) : p \in ProteinIds},
     desc : {<<"beta-carotene biosynthesis.">>, <<"beta-zeacarotene biosynthesis.">>}]

OrganismRows ==
    [prot : {UniprotUri(p) : p \in ProteinIds},
     name : {<<"Arabidopsis thaliana">>, <<"Solanum lycopersicum">>}]

GeneRows ==
    {[prot |-> UniprotUri(p), name |-> g.name, sca |-> g.sca, start |-> g.start,
      stop |-> g.stop, desc |-> g.desc] :
        p \in ProteinIds,
        g \in { [name |-> <<"Solyc04g040190.1.1">>,
                 sca |-> <<"SCAFFOLD", "#", "SL2.31ch04">>,
                 start |-> <<"31103094">>, stop |-> <<"31104596">>,
                 desc |-> <<"Beta-lycopene cyclase">>],
                [name |-> <<"Solyc06g074240.1.1">>,
                 sca |-> <<"SCAFFOLD", "#", "v2", "#", "SL2.31ch06">>,
                 start |-> <<"42289963">>, stop |-> <<"42291459">>,
                 desc |-> <<"Lycopene beta-cyclase">>] }}

RowsOfKind(kind) ==
    CASE kind = "pathways" -> PathwayRows
      [] kind = "genes" -> GeneRows
      [] kind = "organism" -> OrganismRows

\* what the endpoint may hold for a protein query: rows, or a wrong shape
StoresOfKind(kind) ==
    MalformedBodies \cup {JsonBody(rows) : rows \in SeqsUpTo(RowsOfKind(kind), MaxRows)}

\* the compound asked for
ChebiId == <<"17578">>

\* rows of the compound query: ?react and an ?xref holding 'UNIPROT'
XrefRows ==
    [react : {<<"http://www.ebi.ac.uk/rhea", "#", r[1]>> : r \in ReactionIds},
     xref : {ref \in ProteinRefs : "UNIPROT" \in Range(ref) /\ Len(ref) > 2}]

RheaStores ==
    MalformedBodies \cup {JsonBody(rows) : rows \in SeqsUpTo(XrefRows, MaxXrefRows)}

\* the protein data the endpoint holds when a route is served: nothing, a
\* first row, or a first and a second row; P2 has a pathway but no organism
ServedRows(kind) ==
    CASE kind = "pathways" ->
           << [prot |-> UniprotUri(<<"P1">>), desc |-> <<"beta-carotene biosynthesis.">>],
              [prot |-> UniprotUri(<<"P2">>), desc |-> <<"beta-zeacarotene biosynthesis.">>] >>
      [] kind = "organism" ->
           << [prot |-> UniprotUri(<<"P1">>), name |-> <<"Arabidopsis thaliana">>],
              [prot |-> UniprotUri(<<"P1">>), name |-> <<"Solanum lycopersicum">>] >>
      [] kind = "genes" ->
           << CHOOSE g \in GeneRows :
                  g.prot = UniprotUri(<<"P1">>) /\ g.name = <<"Solyc04g040190.1.1">>,
              CHOOSE g \in GeneRows :
                  g.prot = UniprotUri(<<"P2">>) /\ g.name = <<"Solyc06g074240.1.1">> >>

ServedStores(kind) == {JsonBody(SubSeq(ServedRows(kind), 1, n)) : n \in 0..2}

\* ?id of a ChEBI binding: two ids, an id followed by a second '_', and a
\* URI whose last segment holds no '_'
ChebiUris ==
    { <<"purl.obolibrary.org", "/", "obo", "/", "CHEBI", "_", "17579">>,
      <<"purl.obolibrary.org", "/", "obo", "/", "CHEBI", "_", "35309">>,
      <<"purl.obolibrary.org", "/", "obo", "/", "CHEBI", "_", "17579", "_", "b">>,
      <<"purl.obolibrary.org", "/", "obo", "/", "CHEBI">> }

ChebiBindings ==
    [id : ChebiUris, name : {<<"beta-carotene">>, <<"carotene">>},
     syn : {<<"C40H56">>, <<"all-trans">>}]

ChebiBodies ==
    MalformedBodies \cup {JsonBody(rows) : rows \in SeqsUpTo(ChebiBindings, MaxBindings)}

----------------------------------------------------------------------------
(* Calling convert_to_uniprot_id twice in a row on a given dict.           *)

InitConvert ==
    /\ route = "convert"
    /\ pc = "convert"
    /\ \E d \in ConvertInputs : arg = PyDict(d) /\ proteins = PyDict(d)
    /\ returned = <<>>
    /\ endpoint = EmptyEndpoint
    /\ queries = <<>>
    /\ molecules = PyNone
    /\ todo = {}
    /\ pathways = EmptyDict
    /\ genes = EmptyDict
    /\ organism = EmptyDict
    /\ data_js = PyNone
    /\ raised = PyNone
    /\ reply = PyNone

\* one call of convert_to_uniprot_id(proteins)
ConvertToUniprotId ==
    /\ pc = "convert"
    /\ LET r == convert_to_uniprot_id(proteins)
       IN  IF r.ok
           THEN /\ proteins' = r.val
                /\ returned' = Append(returned, r.val)
                /\ pc' = IF route = "convert"
                         THEN (IF Len(returned) = 0 THEN "convert" ELSE "done")
                         ELSE "pathways"
                /\ todo' = IF route = "convert" THEN todo ELSE DOMAIN r.val.d
                /\ UNCHANGED raised
           ELSE /\ pc' = "raised"
                /\ raised' = [exc |-> r.exc, at |-> "convert_to_uniprot_id"]
                /\ UNCHANGED <<proteins, returned, todo>>
    /\ UNCHANGED <<route, arg, endpoint, queries, molecules, pathways, genes,
                   organism, data_js, reply>>

NextConvert == ConvertToUniprotId

SpecConvert == InitConvert /\ [][NextConvert]_vars

----------------------------------------------------------------------------
(* Calling one of the two search functions against an endpoint.            *)

InitSearch ==
    /\ route = "search"
    /\ pc = "search"
    /\ \E b \in ChebiBodies : endpoint = [EmptyEndpoint EXCEPT !["chebi"] = b]
    /\ arg = PyNone
    /\ proteins = PyNone
    /\ returned = <<>>
    /\ queries = <<>>
    /\ molecules = PyNone
    /\ todo = {}
    /\ pathways = EmptyDict
    /\ genes = EmptyDict
    /\ organism = EmptyDict
    /\ data_js = PyNone
    /\ raised = PyNone
    /\ reply = PyNone

\* the body shared by the two functions, which differ in their FILTER
ChebiFromSearch(fn) ==
    /\ pc = "search"
    /\ queries' = Append(queries, [kind |-> "chebi", fn |-> fn])
    /\ data_js' = sparql_query(endpoint["chebi"])
    /\ LET r == chebi_from_search(data_js')
       IN  IF r.ok THEN molecules' = r.val /\ pc' = "done" /\ UNCHANGED raised
           ELSE /\ pc' = "raised" /\ raised' = [exc |-> r.exc, at |-> fn]
                /\ UNCHANGED molecules
    /\ UNCHANGED <<route, proteins, arg, returned, endpoint, fanout, reply>>

GetExactChebiFromSearch == ChebiFromSearch("get_exact_chebi_from_search")

GetExtendedChebiFromSearch == ChebiFromSearch("get_extended_chebi_from_search")

NextSearch == GetExactChebiFromSearch \/ GetExtendedChebiFromSearch

SpecSearch == InitSearch /\ [][NextSearch]_vars

----------------------------------------------------------------------------
(* Calling one of the three protein functions on a given dict.             *)

FanoutRoutes ==
    {"get_pathways_of_proteins", "get_genes_of_proteins", "get_organism_of_proteins"}

KindOfRoute(r) ==
    CASE r = "get_pathways_of_proteins" -> "pathways"
      [] r = "get_genes_of_proteins" -> "genes"
      [] r = "get_organism_of_proteins" -> "organism"

InitFanout ==
    /\ route \in FanoutRoutes
    /\ pc = KindOfRoute(route)
    /\ \E d \in FanoutInputs :
          arg = PyDict(d) /\ proteins = PyDict(d) /\ todo = DOMAIN d
    /\ \E b \in StoresOfKind(KindOfRoute(route)) :
          endpoint = [EmptyEndpoint EXCEPT ![KindOfRoute(route)] = b]
    /\ returned = <<>>
    /\ queries = <<>>
    /\ molecules = PyNone
    /\ pathways = EmptyDict
    /\ genes = EmptyDict
    /\ organism = EmptyDict
    /\ data_js = PyNone
    /\ raised = PyNone
    /\ reply = PyNone

\* where a protein function returns to
AfterFanout(kind) ==
    IF route \in FanoutRoutes THEN "done"
    ELSE CASE kind = "pathways" -> "genes"
           [] kind = "genes" -> "organism"
           [] kind = "organism" -> "render"

\* one round of the loop of get_pathways_of_proteins: one query, its rows
GetPathwaysOfProteinsQuery ==
    /\ pc = "pathways"
    /\ \E key \in todo : \E prots \in UniqueProteins(proteins.d[key]) :
          /\ queries' = Append(queries, [kind |-> "pathways", key |-> key, prot |-> prots,
                                           filter |-> ProtFilter(prots)])
          /\ data_js' = sparql_query(Answer(endpoint["pathways"], ProtFilter(prots)))
          /\ LET rows == Bindings(data_js')
                 d == IF rows.ok THEN FoldPathways(rows.val, pathways) ELSE rows
             IN  IF d.ok
                 THEN /\ pathways' = d.val /\ todo' = todo \ {key} /\ pc' = pc
                      /\ UNCHANGED raised
                 ELSE /\ pc' = "raised"
                      /\ raised' = [exc |-> d.exc, at |-> "get_pathways_of_proteins"]
                      /\ UNCHANGED <<pathways, todo>>
    /\ UNCHANGED <<route, proteins, arg, returned, endpoint, molecules, genes, organism,
                   reply>>

\* return pathways
GetPathwaysOfProteinsReturn ==
    /\ pc = "pathways" /\ todo = {}
    /\ pc' = AfterFanout("pathways")
    /\ todo' = IF route \in FanoutRoutes THEN {} ELSE DOMAIN proteins.d
    /\ UNCHANGED <<route, proteins, arg, returned, endpoint, queries, molecules,
                   pathways, genes, organism, data_js, raised, reply>>

\* one round of the loop of get_genes_of_proteins
GetGenesOfProteinsQuery ==
    /\ pc = "genes"
    /\ \E key \in todo : \E prots \in UniqueProteins(proteins.d[key]) :
          /\ queries' = Append(queries, [kind |-> "genes", key |-> key, prot |-> prots,
                                           filter |-> ProtFilter(prots)])
          /\ data_js' = sparql_query(Answer(endpoint["genes"], ProtFilter(prots)))
          /\ LET rows == Bindings(data_js')
                 d == IF rows.ok THEN FoldGenes(rows.val, genes) ELSE rows
             IN  IF d.ok
                 THEN /\ genes' = d.val /\ todo' = todo \ {key} /\ pc' = pc
                      /\ UNCHANGED raised
                 ELSE /\ pc' = "raised"
                      /\ raised' = [exc |-> d.exc, at |-> "get_genes_of_proteins"]
                      /\ UNCHANGED <<genes, todo>>
    /\ UNCHANGED <<route, proteins, arg, returned, endpoint, molecules, pathways, organism,
                   reply>>

\* return genes
GetGenesOfProteinsReturn ==
    /\ pc = "genes" /\ todo = {}
    /\ pc' = AfterFanout("genes")
    /\ todo' = IF route \in FanoutRoutes THEN {} ELSE DOMAIN proteins.d
    /\ UNCHANGED <<route, proteins, arg, returned, endpoint, queries, molecules,
                   pathways, genes, organism, data_js, raised, reply>>

\* one round of the loop of get_organism_of_proteins
GetOrganismOfProteinsQuery ==
    /\ pc = "organism"
    /\ \E key \in todo : \E prots \in UniqueProteins(proteins.d[key]) :
          /\ queries' = Append(queries, [kind |-> "organism", key |-> key, prot |-> prots,
                                           filter |-> ProtFilter(prots)])
          /\ data_js' = sparql_query(Answer(endpoint["organism"], ProtFilter(prots)))
          /\ LET rows == Bindings(data_js')
                 d == IF rows.ok THEN FoldOrganism(rows.val, organism) ELSE rows
             IN  IF d.ok
                 THEN /\ organism' = d.val /\ todo' = todo \ {key} /\ pc' = pc
                      /\ UNCHANGED raised
                 ELSE /\ pc' = "raised"
                      /\ raised' = [exc |-> d.exc, at |-> "get_organism_of_proteins"]
                      /\ UNCHANGED <<organism, todo>>
    /\ UNCHANGED <<route, proteins, arg, returned, endpoint, molecules, pathways, genes,
                   reply>>

\* return organism
GetOrganismOfProteinsReturn ==
    /\ pc = "organism" /\ todo = {}
    /\ pc' = AfterFanout("organism")
    /\ todo' = {}
    /\ UNCHANGED <<route, proteins, arg, returned, endpoint, queries, molecules,
                   pathways, genes, organism, data_js, raised, reply>>

NextFanout ==
    \/ GetPathwaysOfProteinsQuery
    \/ GetPathwaysOfProteinsReturn
    \/ GetGenesOfProteinsQuery
    \/ GetGenesOfProteinsReturn
    \/ GetOrganismOfProteinsQuery
    \/ GetOrganismOfProteinsReturn

SpecFanout == InitFanout /\ [][NextFanout]_vars

----------------------------------------------------------------------------
(* Serving /chebi/<chebi_id> (show_chebi) or /csv/<chebi_id>               *)
(* (generate_csv).                                                         *)

InitApp ==
    /\ route \in {"show_chebi", "generate_csv"}
    /\ pc = "get_protein_of_chebi"
    /\ arg = ChebiId
    /\ \E r \in RheaStores : \E p \in ServedStores("pathways") :
       \E g \in ServedStores("genes") : \E o \in ServedStores("organism") :
          endpoint = [chebi |-> JsonBody(<<>>), rhea |-> r, pathways |-> p,
                      genes |-> g, organism |-> o]
    /\ proteins = PyNone
    /\ returned = <<>>
    /\ queries = <<>>
    /\ molecules = PyNone
    /\ todo = {}
    /\ pathways = EmptyDict
    /\ genes = EmptyDict
    /\ organism = EmptyDict
    /\ data_js = PyNone
    /\ raised = PyNone
    /\ reply = PyNone

\* proteins = get_protein_of_chebi(chebi_id)
GetProteinOfChebi ==
    /\ pc = "get_protein_of_chebi"
    /\ queries' = Append(queries, [kind |-> "rhea", chebi_id |-> arg])
    /\ data_js' = sparql_query(endpoint["rhea"])
    /\ LET r == protein_of_chebi(data_js')
       IN  IF r.ok
           THEN /\ proteins' = r.val
                /\ pc' = IF route = "show_chebi" THEN "if not proteins" ELSE "convert"
                /\ UNCHANGED raised
           ELSE /\ pc' = "raised"
                /\ raised' = [exc |-> r.exc, at |-> "get_protein_of_chebi"]
                /\ UNCHANGED proteins
    /\ UNCHANGED <<route, arg, returned, endpoint, molecules, fanout, reply>>

\* show_chebi: if not proteins: return render_template(...)
ShowChebiIfNotProteins ==
    /\ pc = "if not proteins"
    /\ IF NoProteins(proteins)
       THEN reply' = RenderNoProteins(arg) /\ pc' = "done"
       ELSE pc' = "convert" /\ UNCHANGED reply
    /\ UNCHANGED <<route, proteins, arg, returned, endpoint, queries, molecules,
                   fanout, data_js, raised>>

\* show_chebi: return render_template(...)
ShowChebiRender ==
    /\ pc = "render" /\ route = "show_chebi"
    /\ reply' = RenderOutput(arg)
    /\ pc' = "done"
    /\ UNCHANGED <<route, proteins, arg, returned, endpoint, queries, molecules,
                   fanout, data_js, raised>>

\* generate_csv: the header, the loop over the reactions, the Response
GenerateCsvLines ==
    /\ pc = "render" /\ route = "generate_csv"
    /\ \E reactions \in ListsOfSet(DOMAIN proteins.d) :
          LET lines == CsvOfReactions(arg, reactions)
          IN  IF lines.ok
              THEN /\ reply' = [mimetype |-> "application/excel",
                                string |-> <<CsvHeader>> \o lines.val]
                   /\ pc' = "done"
                   /\ UNCHANGED raised
              ELSE /\ pc' = "raised"
                   /\ raised' = [exc |-> lines.exc, at |-> "generate_csv"]
                   /\ UNCHANGED reply
    /\ UNCHANGED <<route, proteins, arg, returned, endpoint, queries, molecules,
                   fanout, data_js>>

NextApp ==
    \/ GetProteinOfChebi
    \/ ShowChebiIfNotProteins
    \/ ConvertToUniprotId
    \/ GetPathwaysOfProteinsQuery
    \/ GetPathwaysOfProteinsReturn
    \/ GetGenesOfProteinsQuery
    \/ GetGenesOfProteinsReturn
    \/ GetOrganismOfProteinsQuery
    \/ GetOrganismOfProteinsReturn
    \/ ShowChebiRender
    \/ GenerateCsvLines

SpecApp == InitApp /\ [][NextApp]_vars

----------------------------------------------------------------------------
(* Claims about the three protein functions (checked under SpecFanout).    *)

\* the protein ids occurring in the input dict
InputProteinIds == UNION {Range(arg.d[k]) : k \in DOMAIN arg.d}

\* the dict the called function returns
FanoutResult ==
    CASE route = "get_pathways_of_proteins" -> pathways
      [] route = "get_genes_of_proteins" -> genes
      [] route = "get_organism_of_proteins" -> organism

FanoutReturned == route \in FanoutRoutes /\ pc = "done"

\* the rows the endpoint holds for protein p, for the called function
StoreRows(p) ==
    LET store == endpoint[KindOfRoute(route)]
    IN  IF store \in MalformedBodies THEN <<>>
        ELSE SelectSeq(store.rows, LAMBDA row : row.prot = UniprotUri(p))

\* C1: the dict returned by each of the three functions has as key set
\* exactly the set of protein ids of the input; an id for which the
\* endpoint returned no row is a key bound to the empty list.
C1_KeysAreInputIds ==
    FanoutReturned =>
        /\ DOMAIN FanoutResult = InputProteinIds
        /\ \A p \in InputProteinIds : StoreRows(p) = <<>> => FanoutResult[p] = <<>>

\* the value of a pathway or organism row
ValueOfRow(row) ==
    IF route = "get_pathways_of_proteins" THEN row.desc ELSE row.name

\* the values returned for protein p over the queries qs, in the order the
\* function met them
RECURSIVE ValuesMet(_, _)
ValuesMet(qs, p) ==
    IF qs = <<>> THEN <<>>
    ELSE (IF p \in Range(Head(qs).prot)
          THEN [i \in 1..Len(StoreRows(p)) |-> ValueOfRow(StoreRows(p)[i])]
          ELSE <<>>) \o ValuesMet(Tail(qs), p)

\* seq without the repetitions of a value already met
RECURSIVE FirstOccurrences(_)
FirstOccurrences(seq) ==
    IF seq = <<>> THEN <<>>
    ELSE LET front == FirstOccurrences(SubSeq(seq, 1, Len(seq) - 1))
         IN  IF seq[Len(seq)] \in Range(front) THEN front
             ELSE Append(front, seq[Len(seq)])

\* C2: the list get_pathways_of_proteins (get_organism_of_proteins) binds
\* to a protein holds every distinct description (organism name) returned
\* for it exactly once, in order of first occurrence.
C2_DistinctValuesInOrder ==
    (FanoutReturned /\ route # "get_genes_of_proteins") =>
        \A p \in DOMAIN FanoutResult :
            FanoutResult[p] = FirstOccurrences(ValuesMet(queries, p))

\* gene is the record of row: its five fields, sca cut after its last '#'
IsGeneOfRow(gene, row) ==
    /\ DOMAIN gene = {"name", "sca", "start", "stop", "desc"}
    /\ gene.name = row.name /\ gene.start = row.start
    /\ gene.stop = row.stop /\ gene.desc = row.desc
    /\ \E j \in 1..Len(row.sca) :
          /\ row.sca[j] = "#"
          /\ gene.sca = SubSeq(row.sca, j + 1, Len(row.sca))
          /\ "#" \notin Range(gene.sca)

\* C3: get_genes_of_proteins binds each protein to the gene records the
\* endpoint holds for it, each once and in endpoint row order, however
\* many reactions list the protein; each record holds name, sca, start,
\* stop, desc of its row, sca being the text after the last '#'.
C3_GenesOncePerRecord ==
    (FanoutReturned /\ route = "get_genes_of_proteins") =>
        \A p \in DOMAIN genes :
            /\ Len(genes[p]) = Len(StoreRows(p))
            /\ \A i \in 1..Len(genes[p]) : IsGeneOfRow(genes[p][i], StoreRows(p)[i])

\* the reaction keys queried so far
QueriedKeys == {queries[i].key : i \in 1..Len(queries)}

\* C11: when the body answering a batch query is no JSON (sparql_query
\* returns its empty result), each of the three functions takes the query
\* as having returned zero rows, goes on with the remaining reactions and
\* returns a mapping without raising.
C11_UnparseableGivesNoRows ==
    (route \in FanoutRoutes /\ endpoint[KindOfRoute(route)] = NotJson) =>
        /\ pc # "raised"
        /\ pc = "done" => (QueriedKeys = DOMAIN arg.d /\ FanoutResult = EmptyDict)

\* the protein ids the filter of query q lists, in the order of the text:
\* what follows http://purl.uniprot.org/uniprot/ in each IRI
ListedIds(q) ==
    LET uris == FilterUris(q.filter)
    IN  [i \in 1..Len(uris) |-> SubSeq(uris[i], Len(UniprotUri(<<>>)) + 1, Len(uris[i]))]

\* C12: for every input mapping each of the three functions sends exactly
\* one query per reaction key, none twice, and the filter of the query of
\* a reaction lists each distinct protein id of the reaction's list exactly
\* once and no id that is not in the list, also when the list repeats ids.
\* (A call has ended when it returned or raised.)
C12_OneQueryPerReaction ==
    route \in FanoutRoutes =>
        /\ \A i, j \in 1..Len(queries) : queries[i].key = queries[j].key => i = j
        /\ QueriedKeys \subseteq DOMAIN arg.d
        /\ pc \in {"done", "raised"} => QueriedKeys = DOMAIN arg.d
        /\ \A i \in 1..Len(queries) :
              LET ids == ListedIds(queries[i])
              IN  /\ Range(ids) = Range(arg.d[queries[i].key])
                  /\ \A m, n \in 1..Len(ids) : ids[m] = ids[n] => m = n

----------------------------------------------------------------------------
(* Claims about the two routes (checked under SpecApp) and about           *)
(* sparql_query.                                                           *)

\* get_protein_of_chebi has returned (it did not raise)
ResolverReturned ==
    /\ route \in {"show_chebi", "generate_csv"}
    /\ pc # "get_protein_of_chebi"
    /\ ~(pc = "raised" /\ raised.at = "get_protein_of_chebi")

\* ... and what it returned holds no reaction: None or {}
NoReactions == ResolverReturned /\ Falsy(proteins)

\* C7: when get_protein_of_chebi yields no reactions (None after an
\* unparseable response, {} after zero bindings), show_chebi does not
\* raise, sends no pathway, gene or organism query, and returns the page
\* whose proteins, pathways, genes and organisms are all empty.
C7_ShowChebiNoProteins ==
    (route = "show_chebi" /\ NoReactions) =>
        /\ pc \in {"if not proteins", "done"}
        /\ \A i \in 1..Len(queries) : queries[i].kind = "rhea"
        /\ pc = "done" =>
              /\ Falsy(reply.proteins) /\ Falsy(reply.pathways)
              /\ Falsy(reply.genes) /\ Falsy(reply.organisms)

\* show_chebi has returned the empty page after a response that is no JSON
C7_Witness ==
    /\ route = "show_chebi" /\ pc = "done"
    /\ endpoint["rhea"] = NotJson
    /\ proteins = PyNone
    /\ reply = RenderNoProteins(ChebiId)

\* C8: generate_csv of a compound without reactions (None or {} from the
\* resolver) does not raise and yields the header line and no other line.
C8_CsvHeaderOnly ==
    (route = "generate_csv" /\ NoReactions) =>
        /\ pc # "raised"
        /\ pc = "done" => reply.string = <<CsvHeader>>

\* C9: sparql_query yields the empty result for a body that is no JSON and
\* for a body that is JSON without the results.bindings shape.
C9_MalformedBodyGivesEmpty ==
    (queries # <<>> /\ endpoint[queries[Len(queries)].kind] \in MalformedBodies) =>
        Falsy(data_js)

\* generate_csv has got as far as building the lines
CsvReached ==
    /\ route = "generate_csv"
    /\ pc = "done" \/ (pc = "raised" /\ raised.at = "generate_csv")

\* the organism column of a protein
OrganismColumn(p) == IF p \in DOMAIN organism THEN Join(" - ", organism[p]) ELSE <<>>

\* the lines the claim asks for, as a set
ExpectedCsvLines ==
    UNION { UNION {
        { <<ChebiId, ChebiUrl(ChebiId), r, ReactUrl(r), p, OrganismColumn(p), "Pathway", pw>> :
            pw \in (IF p \in DOMAIN pathways THEN Range(pathways[p]) ELSE {}) }
        \cup
        { <<ChebiId, ChebiUrl(ChebiId), r, ReactUrl(r), p, OrganismColumn(p), "Gene",
            g.name, g.sca, g.start, g.stop, g.desc>> :
            g \in (IF p \in DOMAIN genes THEN Range(genes[p]) ELSE {}) }
        : p \in Range(proteins.d[r]) } : r \in DOMAIN proteins.d }

\* C10: for a report with at least one reaction, generate_csv completes
\* and emits after the header one Pathway line per (reaction, protein of
\* the reaction, pathway of the protein) and one Gene line per (reaction,
\* protein of the reaction, gene of the protein), each with the compound,
\* reaction and protein ids and the protein's organism names joined by
\* ' - ', also for a protein with pathways or genes but no organism.
C10_CsvLines ==
    (CsvReached /\ DOMAIN proteins.d # {}) =>
        /\ pc = "done"
        /\ reply.string[1] = CsvHeader
        /\ {reply.string[i] : i \in 2..Len(reply.string)} = ExpectedCsvLines

----------------------------------------------------------------------------
(* Claims about convert_to_uniprot_id (checked under SpecConvert).         *)

HasColon(ref) == \E i \in 1..Len(ref) : ref[i] = ":"
AllRefsHaveColon(d) == \A k \in DOMAIN d : \A i \in 1..Len(d[k]) : HasColon(d[k][i])

\* t is s without its leading and trailing blanks
IsTrimOf(t, s) ==
    \E a \in 0..Len(s) : \E b \in 0..Len(s) :
        /\ a + Len(t) + b = Len(s)
        /\ \A i \in 1..Len(t) : t[i] = s[a + i]
        /\ \A i \in 1..a : s[i] = " "
        /\ \A i \in (Len(s) - b + 1)..Len(s) : s[i] = " "
        /\ t # <<>> => (t[1] # " " /\ t[Len(t)] # " ")

\* id is the trimmed text after the last ':' of ref
IsShortIdOf(id, ref) ==
    \E j \in 1..Len(ref) :
        /\ ref[j] = ":"
        /\ \A m \in (j + 1)..Len(ref) : ref[m] # ":"
        /\ IsTrimOf(id, SubSeq(ref, j + 1, Len(ref)))

\* C5: when every reference holds a ':', convert_to_uniprot_id returns a
\* dict with the same reaction keys, whose lists have the length and order
\* of the input lists (duplicates kept), each element the trimmed text
\* after the last ':' of the reference at its place.
C5_ConvertShape ==
    (route = "convert" /\ AllRefsHaveColon(arg.d)) =>
        /\ pc = "raised" => Len(returned) >= 1
        /\ Len(returned) >= 1 =>
              /\ DOMAIN returned[1].d = DOMAIN arg.d
              /\ \A k \in DOMAIN arg.d :
                    /\ Len(returned[1].d[k]) = Len(arg.d[k])
                    /\ \A i \in 1..Len(arg.d[k]) :
                          IsShortIdOf(returned[1].d[k][i], arg.d[k][i])

\* a first call has returned for an input with a duplicated reference, a
\* reference with several ':' and one with blanks around the id
C5_Witness ==
    /\ route = "convert" /\ Len(returned) >= 1 /\ AllRefsHaveColon(arg.d)
    /\ \E k \in DOMAIN arg.d :
          /\ Len(arg.d[k]) = 2 /\ arg.d[k][1] = arg.d[k][2]
          /\ arg.d[k][1] = <<"UNIPROT", ":", " ", "P1", " ">>
    /\ \E k \in DOMAIN arg.d : \E i \in 1..Len(arg.d[k]) :
          Cardinality(Positions(arg.d[k][i], ":")) = 2

\* C6 as stated: for an input whose references each hold a ':', the second
\* application of convert_to_uniprot_id completes and returns what the
\* first application returned.
C6_ReapplyStable ==
    (route = "convert" /\ AllRefsHaveColon(arg.d)) =>
        /\ pc # "raised"
        /\ Len(returned) = 2 => returned[2] = returned[1]

\* C6 amended: the ids the first application returns hold no ':'; the
\* second application raises (no separator to split on) whenever some
\* reaction has a non-empty list, and completes, returning the same dict,
\* only when every list is empty.
C6_ReapplyRaises ==
    (route = "convert" /\ AllRefsHaveColon(arg.d)) =>
        /\ Len(returned) >= 1 =>
              \A k \in DOMAIN returned[1].d : \A i \in 1..Len(returned[1].d[k]) :
                  ~HasColon(returned[1].d[k][i])
        /\ pc = "raised" =>
              /\ Len(returned) = 1
              /\ \E k \in DOMAIN returned[1].d : returned[1].d[k] # <<>>
        /\ pc = "done" =>
              /\ Len(returned) = 2
              /\ returned[2] = returned[1]
              /\ \A k \in DOMAIN returned[1].d : returned[1].d[k] = <<>>

\* the second application has raised on the ids the first one returned
C6_Witness ==
    /\ route = "convert" /\ AllRefsHaveColon(arg.d)
    /\ pc = "raised" /\ Len(returned) = 1
    /\ \E k \in DOMAIN returned[1].d : <<"P2">> \in {returned[1].d[k][i] : i \in 1..Len(returned[1].d[k])}

----------------------------------------------------------------------------
(* Claims about the search functions (checked under SpecSearch).           *)

\* the bindings the endpoint holds for the search, when its answer has
\* the results.bindings shape
ChebiAnswerOk == endpoint["chebi"] \notin MalformedBodies
ChebiRows ==
    IF ChebiAnswerOk
    THEN endpoint["chebi"].rows ELSE <<>>

\* the last '/'-segment of a URI, and whether it exists and holds a '_'
LastSegment(uri) == SubSeq(uri, Max(Positions(uri, "/")) + 1, Len(uri))
HasIdPart(uri) ==
    Positions(uri, "/") # {} /\ Positions(LastSegment(uri), "_") # {}

\* all of the last segment after its first '_'
IdAfterFirstUnderscore(uri) ==
    LET g == LastSegment(uri)
    IN  SubSeq(g, Min(Positions(g, "_")) + 1, Len(g))

\* the last segment from its first '_' to its second '_' (or to its end)
IdUpToSecondUnderscore(uri) ==
    LET g == LastSegment(uri)
        i == Min(Positions(g, "_"))
        later == {j \in Positions(g, "_") : j > i}
    IN  SubSeq(g, i + 1, IF later = {} THEN Len(g) ELSE Min(later) - 1)

\* mols is rows merged by id: one entry per id, its syn the synonyms of the
\* rows carrying the id in row order, its name the name of the first such row
MergedBy(IdOf(_), rows, mols) ==
    /\ DOMAIN mols = {IdOf(rows[i].id) : i \in 1..Len(rows)}
    /\ \A id \in DOMAIN mols :
          LET mine == SelectSeq(rows, LAMBDA r : IdOf(r.id) = id)
          IN  /\ mols[id].syn = [i \in 1..Len(mine) |-> mine[i].syn]
              /\ mols[id].name = <<mine[1].name>>

\* C4 as stated: the molecules returned hold one entry per distinct ChEBI
\* id, the id being the part after the first '_' of the last '/'-segment;
\* syn holds the synonym of every row of the id in row order, name the name
\* of the first row of the id.
C4_MergeByIdAfterUnderscore ==
    (route = "search" /\ pc = "done" /\ molecules.tag = "dict") =>
        MergedBy(IdAfterFirstUnderscore, ChebiRows, molecules.d)

\* C4 amended: for bindings whose id URIs hold a '/' and a '_' in the last
\* segment, the call returns a dict with one entry per distinct id, the id
\* being the text between the first and the second '_' of the last segment
\* (to the end of the segment when there is one '_' only); syn and name as
\* stated.
C4_MergeById ==
    (route = "search" /\ ChebiAnswerOk
        /\ \A i \in 1..Len(ChebiRows) : HasIdPart(ChebiRows[i].id)) =>
        /\ pc # "raised"
        /\ pc = "done" =>
              /\ molecules.tag = "dict"
              /\ MergedBy(IdUpToSecondUnderscore, ChebiRows, molecules.d)

\* a search has returned for three rows, the first and the third carrying
\* the same id with different names and synonyms, the second another id
C4_Witness ==
    /\ route = "search" /\ pc = "done" /\ ChebiAnswerOk
    /\ Len(ChebiRows) = 3
    /\ \A i \in 1..3 : HasIdPart(ChebiRows[i].id)
    /\ ChebiRows[1].id = ChebiRows[3].id
    /\ ChebiRows[1].name # ChebiRows[3].name
    /\ ChebiRows[1].syn # ChebiRows[3].syn
    /\ IdUpToSecondUnderscore(ChebiRows[2].id) # IdUpToSecondUnderscore(ChebiRows[1].id)
    /\ Cardinality(DOMAIN molecules.d) = 2

=============================================================================
